---- MODULE Spec2Model ----
(***************************************************************************)
(* The incremental reconciliation engine of the Amazon Business invoice    *)
(* downloader: AmazonInvoiceDownloader.process_order_cards and the ledger   *)
(* (Database) it reads and writes, run repeatedly against a storefront that *)
(* may append invoices to an order between runs.                            *)
(*                                                                          *)
(* Program state: the ledger (orders, invoices), the sink configuration,    *)
(* the position of the controller inside process_order_cards (pc, idx and   *)
(* the locals of the card being processed).  Environment: what the          *)
(* storefront lists, and the outcome of every interaction with the browser, *)
(* the network and the file system, drawn with \E.  The variables visit,    *)
(* last, tally and cancel only record what happened, so that properties can *)
(* speak about it.                                                          *)
(*                                                                          *)
(* Around it: run() with the shutdown signal (SpecRun), the Database API    *)
(* called directly on a new or a legacy file (SpecLedger), and the pure     *)
(* functions get_years_to_check, extract_invoice_links' collection of       *)
(* links, find_active_popover and extract_uuid_from_url (SpecPure); the     *)
(* scheduled loop of main() (SpecMain); the controller on a page whose      *)
(* ESCAPE interaction may raise (SpecPage); parse_schedule_interval and     *)
(* the mode main() takes (SpecSchedule); and the file names given to the    *)
(* invoices of one order over several runs (SpecNames).  The finally block  *)
(* of run() is two steps, its test and its quit().                          *)
(***************************************************************************)
EXTENDS Integers, Sequences, FiniteSets, TLC

\* ---------------------------------------------------------------- bounds
\* invoices the storefront lists for one order, at most
MaxInv == 2
\* runs of the pipeline (scheduled mode repeats run())
MaxRuns == 2
\* links inside one overlay, at most
MaxLinks == 3
\* calls made on the Database API once the file is open
MaxCalls == 3
\* length of the wait between two scheduled runs, in sleeps
MaxChunks == 2
\* polls the 30 seconds of the popover wait leave room for
MaxPolls == 2
\* characters of a --schedule argument, at most
MaxScheduleLen == 3
\* days since January 1 that are tried, besides the last days of a year
MaxDay == 58

\* the order cards of the order-history page, in page order; card c shows
\* the order OrderId(c)
Cards == {1, 2}
NumCards == Cardinality(Cards)

\* Python None / SQL NULL
NULL == <<>>

\* the object setup_driver returns
WebDriver == <<"chrome">>

\* ------------------------------------------------------ storefront data
OrderId(c) == <<"order", c>>
DateText(c) == <<"date", c>>
PriceText(c) == <<"price", c>>
\* how many days before now the date of card c lies
AgeDays(c) == IF c = 1 THEN 30 ELSE 14
OrderKeys == {OrderId(c) : c \in Cards} \cup {NULL}

\* the UUID segment of the i-th invoice of the order of card c, written in
\* lower-case hexadecimal digits
Uuid(c, i) == <<"uuid", c, i>>
\* https://www.amazon.de/documents/download/<uuid>/invoice.pdf
Href(c, i) == <<"href", Uuid(c, i), "invoice.pdf">>

\* the same digits written in upper case, and a path segment that the UUID
\* pattern does not match
UpperUuid(c, i) == <<"UUID", c, i>>
NoUuid == <<"none">>
\* a download URL followed by a query string
UrlWithQuery(segment, query) == <<"href", segment, "invoice.pdf", query>>

\* ----------------------------------------------------------- file_handler
\* .lower() of a matched UUID
Lower(segment) == <<"uuid", segment[2], segment[3]>>

\* the match is returned as it is written in the URL
extract_uuid_from_url_keeps_case(url) ==
    IF url = NULL THEN NULL
    ELSE IF url[2][1] \in {"uuid", "UUID"} THEN url[2]
    ELSE NULL

\* re.search with IGNORECASE over the URL, the first match in lower case;
\* None for an empty URL and for a URL the pattern does not match
extract_uuid_from_url(url) ==
    IF url = NULL THEN NULL
    ELSE IF url[2][1] \in {"uuid", "UUID"} THEN Lower(url[2])
    ELSE NULL

\* the md5 digest of the whole URL, query string included
get_hash_from_url(url) == <<"md5", url>>

\* the bytes read are returned although the write raised
download_invoice_ignores_write_failure(invoice_url, fetch_ok, write_ok, output_folder) ==
    IF ~fetch_ok THEN NULL
    ELSE <<"pdf", extract_uuid_from_url(invoice_url)>>

\* a failed fetch, or with an output folder a failed write, ends in the
\* except branch and returns None; otherwise the bytes read are returned
download_invoice(invoice_url, fetch_ok, write_ok, output_folder) ==
    IF ~fetch_ok THEN NULL
    ELSE IF output_folder /\ ~write_ok THEN NULL
    ELSE <<"pdf", extract_uuid_from_url(invoice_url)>>

\* ----------------------------------------------------------- order_parser
\* None unless both the date and the order identifier were found
extract_order_info_incomplete_if_both_missing(card) ==
    IF card.date = NULL /\ card.order_id = NULL THEN NULL
    ELSE [date |-> card.date, price |-> card.price, order_id |-> card.order_id]

extract_order_info(card) ==
    IF card.date = NULL \/ card.order_id = NULL THEN NULL
    ELSE [date |-> card.date, price |-> card.price, order_id |-> card.order_id]

format_date_for_filename(date) == <<"ymd", date>>

\* the amount the text holds, in cents (every card of the page shows 19,99);
\* 0.0 when the text cannot be read
parse_price(price) == IF price = NULL THEN 0 ELSE 1999

\* False when the date does not parse, else (now - parsed_date).days > 14
is_order_older_than_14_days(date) ==
    IF date = NULL THEN FALSE ELSE AgeDays(date[2]) > 14

\* ------------------------------------------------------ invoice_extractor
\* the collection loop over the a[href*='invoice.pdf'] elements of the
\* overlay: an element whose attribute lookup raises, one with an empty href,
\* and one whose href is already in the list are skipped
RECURSIVE CollectLinks(_, _)
CollectLinks(links, acc) ==
    IF links = <<>> THEN acc
    ELSE LET link == Head(links)
         IN IF link.stale \/ link.href = NULL
               \/ \E j \in 1..Len(acc) : acc[j].href = link.href
            THEN CollectLinks(Tail(links), acc)
            ELSE CollectLinks(Tail(links),
                    Append(acc, [text |-> link.text, href |-> link.href]))

\* the second pass: seen_hrefs / unique_invoice_links
RECURSIVE RemoveDuplicates(_, _, _)
RemoveDuplicates(list, seen_hrefs, unique) ==
    IF list = <<>> THEN unique
    ELSE LET inv == Head(list)
         IN IF inv.href \in seen_hrefs
            THEN RemoveDuplicates(Tail(list), seen_hrefs, unique)
            ELSE RemoveDuplicates(Tail(list), seen_hrefs \cup {inv.href},
                                  Append(unique, inv))

\* every element with an href is kept
extract_invoice_links_keeps_duplicates(links) ==
    SelectSeq([j \in 1..Len(links) |->
                  [text |-> links[j].text, href |-> links[j].href,
                   skip |-> links[j].stale \/ links[j].href = NULL]],
              LAMBDA l : ~l.skip)

\* what extract_invoice_links returns once the overlay has been found
extract_invoice_links(links) ==
    RemoveDuplicates(CollectLinks(links, <<>>), {}, <<>>)

\* an element matched by ".a-popover": the card whose control opened it,
\* is_displayed(), its aria-hidden attribute, whether it holds an
\* .invoice-list, and whether looking at it raises
Popover(c) ==
    [card |-> c, displayed |-> TRUE, aria_hidden |-> NULL,
     invoice_list |-> TRUE, stale |-> FALSE]

\* a popover that only has to be displayed and to hold an invoice list
Qualifies_ignores_aria_hidden(popover) ==
    /\ ~popover.stale
    /\ popover.displayed
    /\ popover.invoice_list

\* the three tests made on one popover; a test that raises skips it
Qualifies(popover) ==
    /\ ~popover.stale
    /\ popover.displayed
    /\ popover.aria_hidden # <<"true">>
    /\ popover.invoice_list

\* for popover in popovers: the first that passes the tests, else nothing
popover_visible(popovers) ==
    IF \E j \in 1..Len(popovers) : Qualifies(popovers[j])
    THEN popovers[CHOOSE j \in 1..Len(popovers) :
                     /\ Qualifies(popovers[j])
                     /\ \A h \in 1..(j - 1) : ~Qualifies(popovers[h])]
    ELSE NULL

\* popover_wait.until(popover_visible), polls[h] being the page at the h-th
\* poll from the j-th on: the first poll that sees a popover, or 0 for
\* TimeoutException when the polls the timeout allows have seen none
until(polls, j) ==
    LET last_poll == IF Len(polls) < MaxPolls THEN Len(polls) ELSE MaxPolls
    IN IF \E h \in j..last_poll : popover_visible(polls[h]) # NULL
       THEN CHOOSE h \in j..last_poll :
               /\ popover_visible(polls[h]) # NULL
               /\ \A g \in j..(h - 1) : popover_visible(polls[g]) = NULL
       ELSE 0

\* find_active_popover: the wait, then a second look at the page (after);
\* a timeout and any other exception (raises) give None.  waited is the number
\* of polls the wait made
find_active_popover(polls, after, raises) ==
    IF raises THEN [popover |-> NULL, waited |-> 0]
    ELSE LET hit == until(polls, 1)
         IN IF hit = 0
            THEN [popover |-> NULL,
                  waited |-> IF Len(polls) < MaxPolls THEN Len(polls) ELSE MaxPolls]
            ELSE [popover |-> popover_visible(after), waited |-> hit]

\* the links of the overlay of card c when the storefront lists n invoices
Overlay(c, n) ==
    [i \in 1..n |->
        [text |-> <<"Rechnung", i>>, href |-> Href(c, i), stale |-> FALSE]]

\* ---------------------------------------------------------------- browser
\* if self.min_year: None and 0 are false
Truthy(min_year) == min_year # NULL /\ min_year # <<0>>

\* the previous year is included through the whole of week 8
get_years_to_check_through_week_8(current_year, days_since_year_start, min_year) ==
    LET previous_year == current_year - 1
        keep(y) == ~Truthy(min_year) \/ y >= min_year[1]
    IN IF days_since_year_start <= 8 * 7
       THEN SelectSeq(<<previous_year, current_year>>, keep)
       ELSE SelectSeq(<<current_year>>, keep)

\* days_since_year_start is timedelta.days, a whole number; the quotient
\* days / 7 is below 8 exactly when days is below 8 * 7.  min_year is None
\* or a boxed integer <<y>>
get_years_to_check(current_year, days_since_year_start, min_year) ==
    LET previous_year == current_year - 1
    IN IF days_since_year_start < 8 * 7
       THEN IF Truthy(min_year)
            THEN (IF previous_year >= min_year[1] THEN <<previous_year>> ELSE <<>>)
                 \o (IF current_year >= min_year[1] THEN <<current_year>> ELSE <<>>)
            ELSE <<previous_year, current_year>>
       ELSE IF Truthy(min_year)
            THEN (IF current_year >= min_year[1] THEN <<current_year>> ELSE <<>>)
            ELSE <<current_year>>

\* ---------------------------------------------------------------- ledger
\* PRAGMA table_info: the column flagged as primary key, invoice_uuid when
\* none is
get_invoice_primary_key(table_pk) ==
    IF table_pk = "none" THEN "invoice_uuid" ELSE table_pk

get_stored_invoice_count(ords, order_id) ==
    IF ords[order_id] = NULL THEN 0 ELSE ords[order_id].invoice_count

get_downloaded_invoices_count(invs) ==
    Cardinality({r \in invs : r.filename # NULL})

\* rows that collide with a new row: on the unique index idx_invoices_uuid
\* (and the invoice_uuid key of a new table), or on the invoice_url key of a
\* legacy table.  SQLite lets a TEXT PRIMARY KEY be NULL, and NULLs never
\* collide
Conflicts(pk, invs, row) ==
    {r \in invs :
        \/ row.invoice_uuid # NULL /\ r.invoice_uuid = row.invoice_uuid
        \/ pk = "invoice_url" /\ row.invoice_url # NULL
              /\ r.invoice_url = row.invoice_url}

\* the rowid of a new row; it is kept only for a row that has no key value,
\* where nothing else tells two rows apart
NextRowid(pk, invs, row) ==
    IF row.invoice_uuid # NULL \/ pk = "invoice_url" THEN 0
    ELSE 1 + Cardinality({r \in invs : r.rowid > 0})

\* the conflicting rows are replaced
InsertOrIgnore_replaces(pk, invs, row) ==
    (invs \ Conflicts(pk, invs, row)) \cup {row}

InsertOrIgnore(pk, invs, row) ==
    IF Conflicts(pk, invs, row) = {}
    THEN invs \cup {[row EXCEPT !.rowid = NextRowid(pk, invs, row)]}
    ELSE invs

InsertOrReplace(pk, invs, row) ==
    LET kept == invs \ Conflicts(pk, invs, row)
    IN kept \cup {[row EXCEPT !.rowid = NextRowid(pk, kept, row)]}

\* the row written for one URL by mark_order_processed: no filename
BareRow(invoice_url, order_id) ==
    [invoice_uuid |-> extract_uuid_from_url(invoice_url),
     invoice_url  |-> invoice_url,
     invoice_hash |-> get_hash_from_url(invoice_url),
     order_id     |-> order_id,
     filename     |-> NULL,
     rowid        |-> 0]

\* the orders table is left as it was
mark_order_processed_orders_skipped(ords, order_id, date, price, invoice_count) ==
    ords

\* INSERT OR REPLACE INTO orders
mark_order_processed_orders(ords, order_id, date, price, invoice_count) ==
    [ords EXCEPT ![order_id] =
        [date |-> date, price |-> price, invoice_count |-> invoice_count]]

\* INSERT OR IGNORE INTO invoices, one URL after the other; with the
\* invoice_uuid key a URL without UUID inserts nothing
RECURSIVE mark_order_processed_invoices(_, _, _, _)
mark_order_processed_invoices(pk, invs, order_id, invoice_urls) ==
    IF invoice_urls = <<>> THEN invs
    ELSE LET url == Head(invoice_urls)
             next == IF pk = "invoice_uuid" /\ extract_uuid_from_url(url) # NULL
                     THEN InsertOrIgnore(pk, invs, BareRow(url, order_id))
                     ELSE IF pk = "invoice_url"
                     THEN InsertOrIgnore(pk, invs, BareRow(url, order_id))
                     ELSE invs
         IN mark_order_processed_invoices(pk, next, order_id, Tail(invoice_urls))

\* the parameters of def mark_invoice_downloaded, self aside
mark_invoice_downloaded_parameters == <<"invoice_url", "order_id", "filename">>

\* the body of mark_invoice_downloaded: INSERT OR REPLACE with the filename,
\* whichever column is the key and whether or not the URL holds a UUID
mark_invoice_downloaded(pk, invs, invoice_url, order_id, filename) ==
    InsertOrReplace(pk, invs,
        [BareRow(invoice_url, order_id) EXCEPT !.filename = filename])

\* Python's binding of a call: the positional arguments fill the first
\* parameters, every keyword must name one of the remaining parameters;
\* otherwise the call raises TypeError before the body runs
CallBinds(parameters, positional, keywords) ==
    /\ Len(positional) <= Len(parameters)
    /\ \A kw \in keywords :
          \E j \in (Len(positional) + 1)..Len(parameters) : parameters[j] = kw

\* the call of mark_invoice_downloaded in process_order_cards
MarkCallPositional == <<"inv['href']", "order_info['order_id']", "filename">>
MarkCallKeywords == {"paperless_uploaded"}

\* --------------------------------------------------- process_order_cards
\* at least one sink is configured (main refuses to start otherwise)
SinkConfigs ==
    {[output_folder |-> f, paperless |-> p] :
        f \in BOOLEAN, p \in BOOLEAN} \ {[output_folder |-> FALSE, paperless |-> FALSE]}

\* the 1-based position of the first element equal to inv
IndexOf(list, inv) ==
    CHOOSE j \in 1..Len(list) :
        list[j] = inv /\ \A h \in 1..(j - 1) : list[h] # inv

\* the index is appended whatever the length of the list
Filename_always_indexed(date_formatted, order_id_safe, original_idx, total) ==
    <<"AMZ", date_formatted, order_id_safe, original_idx>>

\* AMZ_<date>_<order>[_<index>].pdf
Filename(date_formatted, order_id_safe, original_idx, total) ==
    IF total > 1
    THEN <<"AMZ", date_formatted, order_id_safe, original_idx>>
    ELSE <<"AMZ", date_formatted, order_id_safe>>

should_mark_complete_both_needs_download_only(output_folder, paperless, download_success, paperless_success) ==
    IF output_folder /\ paperless THEN download_success
    ELSE IF paperless THEN paperless_success
    ELSE IF output_folder THEN download_success
    ELSE FALSE

should_mark_complete_paperless_uses_download(output_folder, paperless, download_success, paperless_success) ==
    IF output_folder /\ paperless THEN download_success /\ paperless_success
    ELSE IF paperless THEN download_success
    ELSE IF output_folder THEN download_success
    ELSE FALSE

should_mark_complete(output_folder, paperless, download_success, paperless_success) ==
    IF output_folder /\ paperless THEN download_success /\ paperless_success
    ELSE IF paperless THEN paperless_success
    ELSE IF output_folder THEN download_success
    ELSE FALSE

\* where an exception raised inside the body of the card loop lands
card_handler_propagates == "page_except"

card_handler == "card_except"

VARIABLES
    cfg,                  \* output_folder / paperless configured
    store,                \* storefront: invoices it has shown per card's order
    orders,               \* ledger: orders table, order_id -> row or NULL
    invoices,             \* ledger: invoices table, a set of rows
    run,                  \* number of runs started
    pc,                   \* position of the controller
    idx,                  \* enumerate index of the card loop
    order_info,           \* locals of the card being processed
    invoice_links_list,
    stored_invoice_count,
    k,                    \* position in invoice_links_list of the loop variable inv
    pdf_data,
    download_success,
    paperless_success,
    visit,                \* what happened while the current card was processed
    last,                 \* per card, what its previous visit observed
    tally,                \* what happened in the current run so far
    invoices_pk,          \* the key column of the invoices table in the file
    db,                   \* "closed", "open", or "failed" (init_database raised)
    calls,                \* calls made on the Database API
    preexisting,          \* the rows the file held when it was opened
    shutdown_requested,   \* the global flag set by signal_handler
    driver,               \* self.driver: NULL or the WebDriver object
    browser,              \* the browser process: "none", "live" or "quit"
    rpc,                  \* position of control inside run()
    years_to_check,
    year_pos,             \* position of the loop variable year in years_to_check
    cancel,               \* where run() was when shutdown was first requested
    fn,                   \* a function called on its own, its arguments, its result
    main,                 \* main() in scheduled mode: position, run_count, elapsed
    page                  \* the order-history page: its open popovers, its keyboard

locals == <<order_info, invoice_links_list, stored_invoice_count, k,
            pdf_data, download_success, paperless_success>>
ledger == <<orders, invoices>>
database == <<invoices_pk, db, calls, preexisting>>
runvars == <<shutdown_requested, driver, browser, rpc, years_to_check,
             year_pos, cancel>>
\* what process_order_cards does not assign
aside == <<fn, main>>
outer == <<database, runvars, aside>>
vars == <<cfg, page, store, orders, invoices, run, pc, idx, locals,
          visit, last, tally, outer>>

\* a page without open popovers whose body takes every key sent to it, and
\* one on which sending a key may raise
QuietPage == [popovers |-> <<>>, keys |-> "delivered"]
RestivePage == [popovers |-> <<>>, keys |-> "may_fail"]

\* whether find_element(By.TAG_NAME, "body").send_keys(Keys.ESCAPE) went
\* through: never once the browser is quit, always on a page that takes
\* every key
KeySent(sent) ==
    /\ browser # "live" => ~sent
    /\ (browser = "live" /\ page.keys = "delivered") => sent

\* the popovers left open by an ESCAPE that was, or was not, sent
close_popover(popovers, sent) == IF sent THEN <<>> ELSE popovers

\* the exception of the ESCAPE interaction leaves extract_invoice_links
after_escape_propagates(sent) == IF sent THEN "find_control" ELSE "raise"

\* try: ...send_keys(Keys.ESCAPE) except: pass
after_escape(sent) == "find_control"

\* without a popover the call raises
extract_outcome_raises_without_popover(control, click_ok, active_popover) ==
    IF control = "raises" THEN "raise"
    ELSE IF control = "none" THEN "return_empty"
    ELSE IF ~click_ok THEN "raise"
    ELSE IF active_popover = NULL THEN "raise"
    ELSE "return_links"

\* how extract_invoice_links ends after the ESCAPE: find_rechnung_link
\* raises, returns None or a link; the click raises or not;
\* find_active_popover returns None or a popover
extract_outcome(control, click_ok, active_popover) ==
    IF control = "raises" THEN "raise"
    ELSE IF control = "none" THEN "return_empty"
    ELSE IF ~click_ok THEN "raise"
    ELSE IF active_popover = NULL THEN "return_empty"
    ELSE "return_links"

\* if not invoice_links_list: the warning is logged when the price is
\* above zero and the order is older than 14 days
anomaly_warning(list, info) ==
    /\ list = <<>>
    /\ parse_price(info.price) > 0
    /\ is_order_older_than_14_days(info.date)

NoVisit ==
    [card |-> NULL, clicked |-> FALSE, listed |-> -1, stored |-> -1,
     done |-> <<>>, mop |-> <<>>, raised |-> FALSE, dismissed |-> FALSE,
     pending |-> {}, events |-> <<>>, source |-> NULL, warned |-> FALSE]

NewAttempt(position) ==
    [idx |-> position, filename |-> NULL, fetched |-> FALSE, written |-> FALSE,
     forward_attempted |-> FALSE, forwarded |-> FALSE,
     verdict |-> "pending", called |-> FALSE, recorded |-> FALSE]

NeverVisited == [listed |-> -2, all_met |-> TRUE, failed |-> {}]

NoTally ==
    [same |-> TRUE, prev_met |-> TRUE, fetches |-> 0, forwards |-> 0,
     completed_at_start |-> 0, raised |-> {}]

\* positions of the visit's attempts that ended with the given verdict
Positions(v, verdict) ==
    {v.done[j].idx : j \in {h \in 1..Len(v.done) : v.done[h].verdict = verdict}}

FetchedPositions(v) == [j \in 1..Len(v.done) |-> v.done[j].idx]

\* what the visit v of card c leaves behind for the next visit of that card
Observed(v, before) ==
    [listed   |-> v.listed,
     all_met  |-> v.listed >= 0 /\
                  \A j \in 1..v.listed : j \in Positions(v, "complete"),
     failed   |-> IF v.listed >= 0
                  THEN Positions(v, "incomplete") \cup
                       {j \in before.failed : j > v.listed}
                  ELSE before.failed]

\* the bookkeeping done whenever the controller leaves a card
LeaveCard(c, v) ==
    /\ last' = [last EXCEPT ![c] = Observed(v, last[c])]
    /\ tally' = [tally EXCEPT
          !.same = @ /\ v.listed = last[c].listed,
          !.prev_met = @ /\ last[c].all_met]

\* the locals are dead once the card is left: every one of them is assigned
\* again before it is read
ClearLocals ==
    /\ order_info' = NULL
    /\ invoice_links_list' = <<>>
    /\ stored_invoice_count' = 0
    /\ k' = 0
    /\ pdf_data' = NULL
    /\ download_success' = FALSE
    /\ paperless_success' = FALSE

EmptyOrders == [o \in OrderKeys |-> NULL]

Idle ==
    /\ run = 0
    /\ pc = "idle"
    /\ idx = 0
    /\ order_info = NULL
    /\ invoice_links_list = <<>>
    /\ stored_invoice_count = 0
    /\ k = 0
    /\ pdf_data = NULL
    /\ download_success = FALSE
    /\ paperless_success = FALSE
    /\ visit = NoVisit
    /\ last = [c \in Cards |-> NeverVisited]
    /\ tally = NoTally

\* process_order_cards on its own: the file is open, the browser is up, and
\* no signal arrives
Processing ==
    /\ invoices_pk = "invoice_uuid"
    /\ db = "open"
    /\ calls = 0
    /\ preexisting = {}
    /\ shutdown_requested = FALSE
    /\ driver = WebDriver
    /\ browser = "live"
    /\ rpc = "processing"
    /\ years_to_check = <<>>
    /\ year_pos = 0
    /\ cancel = NULL
    /\ fn = NULL
    /\ main = NULL

\* a fresh database file: init_database creates both tables empty
Init ==
    /\ cfg \in SinkConfigs
    /\ store = [c \in Cards |-> 0]
    /\ orders = EmptyOrders
    /\ invoices = {}
    /\ Idle
    /\ Processing
    /\ page = QuietPage

\* run(): one more run of the pipeline over the order-history page
StartRun ==
    /\ UNCHANGED outer
    /\ pc = "idle"
    /\ run < MaxRuns
    /\ tally' = [NoTally EXCEPT
          !.completed_at_start = get_downloaded_invoices_count(invoices)]
    /\ run' = run + 1
    /\ idx' = 0
    /\ pc' = "find_cards"
    /\ page' = [page EXCEPT !.popovers = <<>>]
    /\ UNCHANGED <<cfg, store, ledger, locals, visit, last>>

\* find_elements(By.ID, "orderCard"): it raises, or returns the cards
FindOrderCards ==
    /\ UNCHANGED outer
    /\ pc = "find_cards"
    /\ \E raises \in BOOLEAN :
          /\ browser # "live" => raises
          /\ pc' = IF raises THEN "page_except" ELSE "loop"
    /\ UNCHANGED <<cfg, page, store, ledger, run, idx, locals,
                   visit, last, tally>>

\* the outer except of process_order_cards: log and return
PageExcept ==
    /\ UNCHANGED outer
    /\ pc = "page_except"
    /\ pc' = "idle"
    /\ ClearLocals
    /\ visit' = NoVisit
    /\ tally' = NoTally
    /\ UNCHANGED <<cfg, page, store, ledger, run, idx, last>>

\* the next card: scroll, extract_order_info, format_date_for_filename; the
\* lookups of extract_order_info that raise leave date and order_id None
BeginCard ==
    /\ UNCHANGED outer
    /\ pc = "loop"
    /\ idx < NumCards
    /\ idx' = idx + 1
    /\ \E d \in {DateText(idx + 1), NULL}, o \in {OrderId(idx + 1), NULL} :
          LET card == [date |-> d, price |-> PriceText(idx + 1), order_id |-> o]
              info == extract_order_info(card)
              v    == [NoVisit EXCEPT !.card = card,
                                      !.pending = last[idx + 1].failed]
          IN /\ browser # "live" => (d = NULL /\ o = NULL)
             /\ visit' = v
             /\ order_info' = info
             /\ IF info = NULL
                THEN /\ pc' = "loop"
                     /\ LeaveCard(idx + 1, v)
                ELSE /\ pc' = "extract"
                     /\ UNCHANGED <<last, tally>>
    /\ UNCHANGED <<cfg, page, store, ledger, run, invoice_links_list,
                   stored_invoice_count, k, pdf_data, download_success,
                   paperless_success>>

\* the loop is exhausted: statistics are logged and the function returns
EndLoop ==
    /\ UNCHANGED outer
    /\ pc = "loop"
    /\ idx = NumCards
    /\ pc' = "idle"
    /\ ClearLocals
    /\ visit' = NoVisit
    /\ tally' = NoTally
    /\ UNCHANGED <<cfg, page, store, ledger, run, idx, last>>

\* extract_invoice_links(card): ESCAPE, find_rechnung_link, the click,
\* find_active_popover, and the links of the popover it returned.  The
\* popover of the card is appended to the page's popovers when it opens;
\* once the browser has been quit every command raises.  The storefront only
\* appends: the popover lists at least the invoices it has shown before
ExtractInvoiceLinks ==
    /\ UNCHANGED outer
    /\ pc = "extract"
    /\ \E sent \in BOOLEAN, control \in {"raises", "none", "found"},
          click_ok \in BOOLEAN, appears \in BOOLEAN, n \in store[idx]..MaxInv :
          LET closed == close_popover(page.popovers, sent)
              goes_on == after_escape(sent) = "find_control"
              click_tried == goes_on /\ control = "found"
              clicked == click_tried /\ click_ok
              shown == IF clicked /\ appears
                       THEN Append(closed, Popover(idx)) ELSE closed
              active_popover ==
                  IF clicked
                  THEN find_active_popover(<<shown>>, shown, FALSE).popover
                  ELSE NULL
              ending == IF goes_on
                        THEN extract_outcome(control, click_ok, active_popover)
                        ELSE "raise"
              shows == [store EXCEPT ![idx] = n]
              list == IF ending = "return_links"
                      THEN extract_invoice_links(
                              Overlay(active_popover.card, shows[active_popover.card]))
                      ELSE <<>>
              events ==
                  <<IF sent THEN "escape" ELSE "escape_failed">>
                  \o (IF goes_on THEN <<"locate">> ELSE <<>>)
                  \o (IF goes_on /\ control = "raises"
                      THEN <<"locate_failed">> ELSE <<>>)
                  \o (IF goes_on /\ control = "none" THEN <<"no_control">> ELSE <<>>)
                  \o (IF click_tried THEN <<"click">> ELSE <<>>)
                  \o (IF clicked THEN <<"wait">> ELSE <<>>)
                  \o (IF clicked /\ active_popover = NULL
                      THEN <<"no_popover">> ELSE <<>>)
              seen == [visit EXCEPT
                         !.clicked = click_tried,
                         !.events = events,
                         !.source = IF active_popover = NULL THEN NULL
                                    ELSE <<active_popover.card>>]
          IN /\ KeySent(sent)
             /\ (control = "raises") <=> (browser # "live")
             /\ control # "found" => click_ok
             /\ (control # "found" \/ ~click_ok) => ~appears
             /\ ~appears => n = store[idx]
             /\ store' = shows
             /\ page' = [page EXCEPT !.popovers = shown]
             /\ IF ending = "raise"
                THEN /\ pc' = card_handler
                     /\ visit' = [seen EXCEPT !.raised = TRUE]
                     /\ tally' = [tally EXCEPT !.raised = @ \cup {idx}]
                     /\ UNCHANGED invoice_links_list
                ELSE /\ pc' = "reconcile"
                     /\ visit' = [seen EXCEPT !.listed = Len(list)]
                     /\ invoice_links_list' = list
                     /\ UNCHANGED tally
    /\ UNCHANGED <<cfg, ledger, run, idx, order_info,
                   stored_invoice_count, k, pdf_data, download_success,
                   paperless_success, last>>

Hrefs(list) == [j \in 1..Len(list) |-> list[j].href]

\* get_stored_invoice_count, the slice, and the branch taken when the slice
\* is empty: mark_order_processed and continue
Reconcile ==
    /\ UNCHANGED outer
    /\ pc = "reconcile"
    /\ LET stored == get_stored_invoice_count(orders, order_info.order_id)
           new_invoice_links ==
               SubSeq(invoice_links_list, stored + 1, Len(invoice_links_list))
           count == Len(invoice_links_list)
       IN /\ stored_invoice_count' = stored
          /\ IF new_invoice_links = <<>>
             THEN /\ orders' = mark_order_processed_orders(orders,
                        order_info.order_id, order_info.date, order_info.price, count)
                  /\ invoices' = mark_order_processed_invoices(
                        get_invoice_primary_key(invoices_pk), invoices,
                        order_info.order_id, Hrefs(invoice_links_list))
                  /\ visit' = [visit EXCEPT !.stored = stored,
                                            !.mop = Append(@, count)]
                  /\ pc' = "loop"
                  /\ k' = 0
                  /\ LeaveCard(idx, visit')
             ELSE /\ UNCHANGED <<ledger, last, tally>>
                  /\ visit' = [visit EXCEPT !.stored = stored]
                  /\ k' = stored + 1
                  /\ pc' = IF cfg.output_folder \/ cfg.paperless
                           THEN "download" ELSE "mark_order"
    /\ UNCHANGED <<cfg, page, store, run, idx, order_info, invoice_links_list,
                   pdf_data, download_success, paperless_success>>

\* the file name of the invoice at position k
CurrentFilename ==
    Filename(format_date_for_filename(order_info.date), order_info.order_id,
             IndexOf(invoice_links_list, invoice_links_list[k]),
             Len(invoice_links_list))

\* download_invoice for the loop variable inv, to the folder or to memory
DownloadInvoice ==
    /\ UNCHANGED outer
    /\ pc = "download"
    /\ \E fetch_ok \in BOOLEAN, write_ok \in BOOLEAN :
          LET inv == invoice_links_list[k]
              data == download_invoice(inv.href, fetch_ok, write_ok, cfg.output_folder)
              att == [NewAttempt(IndexOf(invoice_links_list, inv)) EXCEPT
                        !.filename = CurrentFilename,
                        !.fetched = fetch_ok,
                        !.written = cfg.output_folder /\ fetch_ok /\ write_ok]
          IN /\ browser # "live" => ~fetch_ok
             /\ (~cfg.output_folder \/ ~fetch_ok) => write_ok
             /\ pdf_data' = data
             /\ download_success' = (data # NULL)
             /\ paperless_success' = FALSE
             /\ visit' = [visit EXCEPT !.done = Append(@, att)]
             /\ tally' = [tally EXCEPT !.fetches = @ + 1]
    /\ pc' = "upload"
    /\ UNCHANGED <<cfg, page, store, ledger, run, idx, order_info,
                   invoice_links_list, stored_invoice_count, k, last>>

\* upload_to_paperless, when forwarding is configured and bytes were fetched
UploadToPaperless ==
    /\ UNCHANGED outer
    /\ pc = "upload"
    /\ IF cfg.paperless /\ pdf_data # NULL
       THEN \E accepted \in BOOLEAN :
               /\ paperless_success' = accepted
               /\ visit' = [visit EXCEPT
                     !.done[Len(visit.done)].forward_attempted = TRUE,
                     !.done[Len(visit.done)].forwarded = accepted]
               /\ tally' = [tally EXCEPT !.forwards = @ + 1]
       ELSE UNCHANGED <<paperless_success, visit, tally>>
    /\ pc' = "mark"
    /\ UNCHANGED <<cfg, page, store, ledger, run, idx, order_info,
                   invoice_links_list, stored_invoice_count, k, pdf_data,
                   download_success, last>>

\* the completion verdict and the call of mark_invoice_downloaded; then the
\* next new invoice, or the end of the loop over the new invoices
MarkInvoice ==
    /\ UNCHANGED outer
    /\ pc = "mark"
    /\ LET inv == invoice_links_list[k]
           verdict == should_mark_complete(cfg.output_folder, cfg.paperless,
                                           download_success, paperless_success)
           binds == CallBinds(mark_invoice_downloaded_parameters,
                              MarkCallPositional, MarkCallKeywords)
           n == Len(visit.done)
       IN IF verdict /\ ~binds
          THEN \* TypeError: raised by the call, caught at the card boundary
               /\ visit' = [visit EXCEPT
                     !.done[n].verdict = "complete",
                     !.done[n].called = TRUE,
                     !.raised = TRUE]
               /\ tally' = [tally EXCEPT !.raised = @ \cup {idx}]
               /\ pc' = card_handler
               /\ UNCHANGED <<ledger, k>>
          ELSE /\ invoices' =
                     IF verdict
                     THEN mark_invoice_downloaded(
                             get_invoice_primary_key(invoices_pk), invoices, inv.href,
                             order_info.order_id,
                             IF cfg.output_folder THEN CurrentFilename ELSE NULL)
                     ELSE invoices
               /\ UNCHANGED orders
               /\ visit' = [visit EXCEPT
                     !.done[n].verdict =
                         IF verdict THEN "complete" ELSE "incomplete",
                     !.done[n].called = verdict,
                     !.done[n].recorded = verdict]
               /\ IF k < Len(invoice_links_list)
                  THEN k' = k + 1 /\ pc' = "download"
                  ELSE k' = k /\ pc' = "mark_order"
               /\ UNCHANGED tally
    /\ UNCHANGED <<cfg, page, store, run, idx, order_info, invoice_links_list,
                   stored_invoice_count, pdf_data, download_success,
                   paperless_success, last>>

\* mark_order_processed with the current count, the anomaly warning, and
\* close_popover
MarkOrderProcessed ==
    /\ UNCHANGED outer
    /\ pc = "mark_order"
    /\ LET count == Len(invoice_links_list)
       IN /\ orders' = mark_order_processed_orders(orders,
                order_info.order_id, order_info.date, order_info.price, count)
          /\ invoices' = mark_order_processed_invoices(
                        get_invoice_primary_key(invoices_pk), invoices,
                order_info.order_id, Hrefs(invoice_links_list))
          /\ visit' = [visit EXCEPT
                !.mop = Append(@, count),
                !.warned = anomaly_warning(invoice_links_list, order_info)]
    /\ \E sent \in BOOLEAN :
          /\ KeySent(sent)
          /\ page' = [page EXCEPT !.popovers = close_popover(@, sent)]
    /\ pc' = "loop"
    /\ LeaveCard(idx, visit')
    /\ UNCHANGED <<cfg, store, run, idx, locals>>

\* except Exception at the card boundary: log, close_popover, next card
CardExcept ==
    /\ UNCHANGED outer
    /\ pc = "card_except"
    /\ visit' = [visit EXCEPT !.dismissed = TRUE]
    /\ \E sent \in BOOLEAN :
          /\ KeySent(sent)
          /\ page' = [page EXCEPT !.popovers = close_popover(@, sent)]
    /\ pc' = "loop"
    /\ LeaveCard(idx, visit')
    /\ UNCHANGED <<cfg, store, ledger, run, idx, locals>>

Next ==
    \/ StartRun
    \/ FindOrderCards
    \/ PageExcept
    \/ BeginCard
    \/ EndLoop
    \/ ExtractInvoiceLinks
    \/ Reconcile
    \/ DownloadInvoice
    \/ UploadToPaperless
    \/ MarkInvoice
    \/ MarkOrderProcessed
    \/ CardExcept

Spec == Init /\ [][Next]_vars

\* a database file that already exists when Database is constructed
\* (CREATE TABLE IF NOT EXISTS keeps its rows): the ledger of an installation
\* that has recorded the only invoice of the first order as downloaded
InitPrior ==
    /\ cfg \in SinkConfigs
    /\ store = [c \in Cards |-> IF c = 1 THEN 1 ELSE 0]
    /\ orders = mark_order_processed_orders(EmptyOrders,
                    OrderId(1), DateText(1), PriceText(1), 1)
    /\ invoices = mark_invoice_downloaded("invoice_uuid", {}, Href(1, 1), OrderId(1),
                    Filename(format_date_for_filename(DateText(1)), OrderId(1), 1, 1))
    /\ Idle
    /\ Processing

    /\ page = QuietPage

SpecPrior == InitPrior /\ [][Next]_vars

\* the same installation, writing to a folder only, on a page where sending
\* a key may raise (find_element or send_keys raising inside the try blocks
\* around ESCAPE)
InitPage ==
    /\ cfg = [output_folder |-> TRUE, paperless |-> FALSE]
    /\ store = [c \in Cards |-> IF c = 1 THEN 1 ELSE 0]
    /\ orders = mark_order_processed_orders(EmptyOrders,
                    OrderId(1), DateText(1), PriceText(1), 1)
    /\ invoices = mark_invoice_downloaded("invoice_uuid", {}, Href(1, 1), OrderId(1),
                    Filename(format_date_for_filename(DateText(1)), OrderId(1), 1, 1))
    /\ Idle
    /\ Processing
    /\ page = RestivePage

SpecPage == InitPage /\ [][Next]_vars

\* ------------------------------------------------- the pure functions
\* process_order_cards is not running
Parked ==
    /\ cfg = [output_folder |-> TRUE, paperless |-> TRUE]
    /\ store = [c \in Cards |-> 0]
    /\ orders = EmptyOrders
    /\ invoices = {}
    /\ Idle

\* run() is not running
NoRun ==
    /\ shutdown_requested = FALSE
    /\ driver = NULL
    /\ browser = "none"
    /\ rpc = "none"
    /\ page = QuietPage
    /\ years_to_check = <<>>
    /\ year_pos = 0
    /\ cancel = NULL

\* datetime.now(): a year, and the whole days since its January 1
CurrentYears == 2024..2026
DaysSinceYearStart == (0..MaxDay) \cup {364, 365}
\* --min-year: absent, 0, or a year around the current one
MinYears == {NULL, <<0>>} \cup {<<y>> : y \in 2023..2027}

\* the a[href*='invoice.pdf'] elements an overlay can hold
LinkElements ==
    {[text |-> <<"Rechnung">>, href |-> h, stale |-> FALSE] :
        h \in {Href(1, 1), Href(1, 2), NULL}}
    \cup {[text |-> <<"Rechnung">>, href |-> Href(1, 1), stale |-> TRUE]}
LinkLists ==
    UNION {[1..n -> LinkElements] : n \in 0..MaxLinks}

\* invoice URLs: with or without a UUID segment, its letters in either case,
\* with or without a query string
Urls ==
    LET segments == {Uuid(1, 1), UpperUuid(1, 1), Uuid(1, 2), NoUuid}
    IN {<<"href", g, "invoice.pdf">> : g \in segments}
       \cup {UrlWithQuery(g, q) : g \in segments, q \in {"a=1", "a=2"}}
       \cup {NULL}

\* elements matched by ".a-popover", and pages holding some of them
PopoverElements ==
    {[card |-> 1, displayed |-> d, aria_hidden |-> a, invoice_list |-> l,
      stale |-> t] :
        d \in BOOLEAN, a \in {NULL, <<"true">>}, l \in BOOLEAN, t \in BOOLEAN}
PopoverPages ==
    {<<>>} \cup {<<e>> : e \in PopoverElements}
           \cup {<<e, Popover(2)>> : e \in PopoverElements}
\* what the successive polls of the wait see, the polls past the timeout
\* included
PolledPages ==
    [1..(MaxPolls + 1) ->
        {<<>>, <<Popover(1)>>, <<[Popover(1) EXCEPT !.displayed = FALSE]>>}]

\* --schedule arguments: digits, unit letters in either case, another
\* letter, a line feed
ScheduleStrings ==
    UNION {[1..n -> {"0", "3", "h", "D", "x", "\n"}] : n \in 0..MaxScheduleLen}

\* the value of a decimal digit
DigitValue ==
    [c \in {"0", "1", "2", "3", "4", "5", "6", "7", "8", "9"} |->
        CASE c = "0" -> 0 [] c = "1" -> 1 [] c = "2" -> 2 [] c = "3" -> 3
          [] c = "4" -> 4 [] c = "5" -> 5 [] c = "6" -> 6 [] c = "7" -> 7
          [] c = "8" -> 8 [] c = "9" -> 9]

\* int(match.group(1))
RECURSIVE int(_)
int(digits) ==
    IF digits = <<>> THEN 0
    ELSE 10 * int(SubSeq(digits, 1, Len(digits) - 1))
         + DigitValue[digits[Len(digits)]]

\* schedule_str.lower()
str_lower(str) ==
    [j \in 1..Len(str) |->
        IF str[j] = "H" THEN "h" ELSE IF str[j] = "D" THEN "d" ELSE str[j]]

\* re.match(r'^(\d+)([hd])$', str): the groups, or None.  In Python $ matches
\* at the end of the string and also just before a line feed that ends it
re_match(str) ==
    LET body == IF str # <<>> /\ str[Len(str)] = "\n"
                THEN SubSeq(str, 1, Len(str) - 1) ELSE str
    IN IF /\ Len(body) >= 2
          /\ \A j \in 1..(Len(body) - 1) : body[j] \in DOMAIN DigitValue
          /\ body[Len(body)] \in {"h", "d"}
       THEN <<SubSeq(body, 1, Len(body) - 1), body[Len(body)]>>
       ELSE NULL

\* parse_schedule_interval: the seconds, or ValueError
parse_schedule_interval(schedule_str) ==
    IF schedule_str = <<>> THEN [raises |-> FALSE, seconds |-> 0]
    ELSE LET match == re_match(str_lower(schedule_str))
         IN IF match = NULL THEN [raises |-> TRUE, seconds |-> 0]
            ELSE IF match[2] = "h"
            THEN [raises |-> FALSE, seconds |-> int(match[1]) * 3600]
            ELSE [raises |-> FALSE, seconds |-> int(match[1]) * 86400]

\* main(): what follows the parsing of --schedule: parser.error exits, an
\* interval above zero enters the scheduling loop, else run() is called once
main_mode(schedule) ==
    LET parsed == IF schedule = <<>> THEN [raises |-> FALSE, seconds |-> 0]
                  ELSE parse_schedule_interval(schedule)
    IN IF parsed.raises THEN "exit"
       ELSE IF parsed.seconds > 0 THEN "scheduled" ELSE "single"

InitPure ==
    /\ Parked
    /\ NoRun
    /\ invoices_pk = "invoice_uuid" /\ db = "closed" /\ calls = 0
    /\ preexisting = {}
    /\ main = NULL
    /\ fn \in
          {[op |-> "get_years_to_check", args |-> <<y, d, m>>,
            done |-> FALSE, result |-> <<>>] :
              y \in CurrentYears, d \in DaysSinceYearStart, m \in MinYears}
          \cup {[op |-> "extract_invoice_links", args |-> <<l>>,
                 done |-> FALSE, result |-> <<>>] : l \in LinkLists}
          \cup {[op |-> "extract_uuid_from_url", args |-> <<u, w>>,
                 done |-> FALSE, result |-> <<>>] : u \in Urls, w \in Urls}
          \cup {[op |-> "find_active_popover", args |-> <<polls, after, raises>>,
                 done |-> FALSE, result |-> <<>>] :
                    polls \in PolledPages, after \in PopoverPages,
                    raises \in BOOLEAN}

Returns(value) ==
    /\ fn' = [fn EXCEPT !.done = TRUE, !.result = value]
    /\ UNCHANGED <<cfg, page, store, orders, invoices, run, pc, idx, locals,
                   visit, last, tally, database, runvars, main>>

CallGetYearsToCheck ==
    /\ fn.op = "get_years_to_check" /\ ~fn.done
    /\ Returns(get_years_to_check(fn.args[1], fn.args[2], fn.args[3]))

CallExtractInvoiceLinks ==
    /\ fn.op = "extract_invoice_links" /\ ~fn.done
    /\ Returns(extract_invoice_links(fn.args[1]))

\* two calls, one URL each
CallExtractUuidFromUrl ==
    /\ fn.op = "extract_uuid_from_url" /\ ~fn.done
    /\ Returns(<<extract_uuid_from_url(fn.args[1]),
                 extract_uuid_from_url(fn.args[2])>>)

CallFindActivePopover ==
    /\ fn.op = "find_active_popover" /\ ~fn.done
    /\ Returns(find_active_popover(fn.args[1], fn.args[2], fn.args[3]))

\* main() up to the choice between one run and the scheduling loop
CallParseScheduleInterval ==
    /\ fn.op = "parse_schedule_interval" /\ ~fn.done
    /\ Returns([parsed |-> parse_schedule_interval(fn.args[1]),
                mode |-> main_mode(fn.args[1])])

NextPure ==
    \/ CallGetYearsToCheck
    \/ CallExtractInvoiceLinks
    \/ CallExtractUuidFromUrl
    \/ CallFindActivePopover

SpecPure == InitPure /\ [][NextPure]_vars

\* ------------------------------------------- the naming of the files
\* the first order card, visited once per run, no visit made yet
InitNames ==
    /\ Parked
    /\ NoRun
    /\ invoices_pk = "invoice_uuid" /\ db = "closed" /\ calls = 0
    /\ preexisting = {}
    /\ main = NULL
    /\ fn = [op |-> "name_invoices", lists |-> <<>>, stored |-> 0,
             result |-> <<>>]

\* one visit of the card, from extract_invoice_links to the file names of the
\* new invoices.  The storefront lists n invoices, never fewer than before;
\* a link element whose lookup raises is skipped by the collection loop; the
\* stored count is the length of the list of a visit that reached
\* mark_order_processed
NameInvoices ==
    /\ fn.op = "name_invoices"
    /\ Len(fn.result) < MaxRuns
    /\ \E n \in store[1]..MaxLinks, recorded \in BOOLEAN :
       \E stale \in [1..n -> BOOLEAN] :
          LET links == [i \in 1..n |->
                          [Overlay(1, n)[i] EXCEPT !.stale = stale[i]]]
              links_list == extract_invoice_links(links)
              new_links ==
                  SubSeq(links_list, fn.stored + 1,
                         Len(links_list))
              named ==
                  [j \in 1..Len(new_links) |->
                      [href |-> new_links[j].href,
                       filename |->
                          Filename(format_date_for_filename(DateText(1)),
                                   OrderId(1),
                                   IndexOf(links_list,
                                           new_links[j]),
                                   Len(links_list))]]
          IN /\ store' = [store EXCEPT ![1] = n]
             /\ fn' = [fn EXCEPT
                   !.result = Append(@, named),
                   !.lists = Append(@, Len(links_list)),
                   !.stored = IF recorded THEN Len(links_list) ELSE @]
    /\ UNCHANGED <<cfg, page, orders, invoices, run, pc, idx, locals,
                   visit, last, tally, database, runvars, main>>

SpecNames == InitNames /\ [][NameInvoices]_vars

\* main() called with a --schedule argument
InitSchedule ==
    /\ Parked
    /\ NoRun
    /\ invoices_pk = "invoice_uuid" /\ db = "closed" /\ calls = 0
    /\ preexisting = {}
    /\ main = NULL
    /\ fn \in {[op |-> "parse_schedule_interval", args |-> <<str>>,
                done |-> FALSE, result |-> <<>>] : str \in ScheduleStrings}

SpecSchedule == InitSchedule /\ [][CallParseScheduleInterval]_vars

\* ----------------------------------------------------- the Database API
\* the URLs the API is called with: one invoice under two query strings, and
\* a URL without UUID
LedgerUrls ==
    {UrlWithQuery(Uuid(1, 1), "a=1"), UrlWithQuery(Uuid(1, 1), "a=2"),
     <<"href", NoUuid, "invoice.pdf">>}

\* a row of a legacy invoices table: keyed by invoice_url, no invoice_uuid
\* column
LegacyRow(invoice_url) ==
    [BareRow(invoice_url, OrderId(1)) EXCEPT
        !.invoice_uuid = NULL,
        !.filename = <<"AMZ", invoice_url>>]

\* a file that does not exist yet, or a legacy file with some rows
InitLedger ==
    /\ cfg = [output_folder |-> TRUE, paperless |-> TRUE]
    /\ store = [c \in Cards |-> 0]
    /\ orders = EmptyOrders
    /\ Idle
    /\ NoRun
    /\ fn = NULL
    /\ main = NULL
    /\ db = "closed"
    /\ calls = 0
    /\ invoices_pk \in {"invoice_uuid", "invoice_url"}
    /\ invoices \in SUBSET {LegacyRow(u) : u \in LedgerUrls}
    /\ invoices_pk = "invoice_uuid" => invoices = {}
    /\ preexisting = invoices

\* UPDATE invoices SET invoice_uuid = ? WHERE invoice_url = ? AND
\* invoice_uuid IS NULL, for every URL that holds a UUID
Backfill(invs) ==
    {IF r.invoice_uuid = NULL /\ r.invoice_url # NULL
        /\ extract_uuid_from_url(r.invoice_url) # NULL
     THEN [r EXCEPT !.invoice_uuid = extract_uuid_from_url(r.invoice_url)]
     ELSE r : r \in invs}

\* CREATE UNIQUE INDEX ... ON invoices(invoice_uuid) raises IntegrityError
\* when two rows hold the same non-NULL value
UniqueIndexFails(invs) ==
    \E r, t \in invs :
        r # t /\ r.invoice_uuid # NULL /\ r.invoice_uuid = t.invoice_uuid

\* Database(db_path): init_database creates the tables that are missing,
\* adds and backfills invoice_uuid, and creates the unique index; only
\* sqlite3.OperationalError is caught, and nothing is committed unless the
\* end of the function is reached
InitDatabase ==
    /\ db = "closed"
    /\ IF UniqueIndexFails(Backfill(invoices))
       THEN db' = "failed" /\ UNCHANGED invoices
       ELSE db' = "open" /\ invoices' = Backfill(invoices)
    /\ UNCHANGED <<cfg, page, store, orders, run, pc, idx, locals, visit, last,
                   tally, invoices_pk, calls, preexisting, runvars, aside>>

\* the invoice_urls arguments: lists of one or two URLs
LedgerUrlLists ==
    {<<u>> : u \in LedgerUrls} \cup {<<u, v>> : u, v \in LedgerUrls}

CallMarkOrderProcessed ==
    /\ db = "open" /\ calls < MaxCalls
    /\ \E invoice_urls \in LedgerUrlLists :
          /\ orders' = mark_order_processed_orders(orders, OrderId(1),
                            DateText(1), PriceText(1), Len(invoice_urls))
          /\ invoices' = mark_order_processed_invoices(
                            get_invoice_primary_key(invoices_pk), invoices,
                            OrderId(1), invoice_urls)
          /\ fn' = [op |-> "mark_order_processed", args |-> invoice_urls]
    /\ calls' = calls + 1
    /\ UNCHANGED <<cfg, page, store, run, pc, idx, locals, visit, last, tally,
                   invoices_pk, db, preexisting, runvars, main>>

CallMarkInvoiceDownloaded ==
    /\ db = "open" /\ calls < MaxCalls
    /\ \E url \in LedgerUrls, filename \in {NULL, <<"AMZ", "new">>} :
          /\ invoices' = mark_invoice_downloaded(
                            get_invoice_primary_key(invoices_pk), invoices,
                            url, OrderId(1), filename)
          /\ fn' = [op |-> "mark_invoice_downloaded", args |-> <<url>>]
    /\ calls' = calls + 1
    /\ UNCHANGED <<cfg, page, store, orders, run, pc, idx, locals, visit, last,
                   tally, invoices_pk, db, preexisting, runvars, main>>

NextLedger ==
    \/ InitDatabase
    \/ CallMarkOrderProcessed
    \/ CallMarkInvoiceDownloaded

SpecLedger == InitLedger /\ [][NextLedger]_vars

\* ------------------------------------------------- run() and the signal
\* nothing has requested shutdown yet
NoRequest ==
    [at |-> NULL, navigated |-> {}, nav_after |-> {}, proc_after |-> {},
     quit_by |-> {}]

\* main() has built the downloader, installed signal_handler and set
\* downloader_instance; run() is about to be called
InitRun ==
    /\ cfg = [output_folder |-> TRUE, paperless |-> FALSE]
    /\ store = [c \in Cards |-> 0]
    /\ orders = EmptyOrders
    /\ invoices = {}
    /\ Idle
    /\ invoices_pk = "invoice_uuid"
    /\ db = "open"
    /\ calls = 0
    /\ preexisting = {}
    /\ shutdown_requested = FALSE
    /\ driver = NULL
    /\ browser = "none"
    /\ rpc = "start"
    /\ page = QuietPage
    /\ years_to_check = <<>>
    /\ year_pos = 0
    /\ cancel = NoRequest
    /\ fn = NULL
    /\ main = NULL

card_state == <<cfg, page, store, orders, invoices, run, pc, idx, locals,
                visit, last, tally>>

handler_quits_never(d) == FALSE

\* if downloader_instance and downloader_instance.driver
handler_quits(d) == d # NULL

\* signal_handler: set the flag; quit the browser and forget the driver,
\* which is not forgotten when quit() raises (quit() stops the driver service
\* whether it raises or not)
Signal ==
    /\ rpc \notin {"returned", "raised"}
    /\ shutdown_requested' = TRUE
    /\ IF handler_quits(driver)
       THEN /\ browser' = "quit"
            /\ driver' \in {NULL, driver}
       ELSE UNCHANGED <<browser, driver>>
    /\ cancel' = [cancel EXCEPT
          !.at = IF shutdown_requested THEN @
                 ELSE [rpc |-> rpc, year_pos |-> year_pos, run |-> run,
                       idx |-> idx, pc |-> pc],
          !.quit_by = IF handler_quits(driver)
                      THEN @ \cup {"signal_handler"} ELSE @]
    /\ UNCHANGED <<card_state, database, rpc, years_to_check, year_pos, aside>>

\* the test before starting
RunEnter ==
    /\ rpc = "start"
    /\ rpc' = IF shutdown_requested THEN "finally" ELSE "setup"
    /\ UNCHANGED <<card_state, database, shutdown_requested, driver, browser,
                   years_to_check, year_pos, cancel, aside>>

\* self.driver = self.browser.setup_driver(): Chrome starts, or the call
\* raises
SetupDriver ==
    /\ rpc = "setup"
    /\ \E raises \in BOOLEAN :
          IF raises
          THEN rpc' = "except" /\ UNCHANGED <<driver, browser>>
          ELSE rpc' = "after_setup" /\ driver' = WebDriver /\ browser' = "live"
    /\ UNCHANGED <<card_state, database, shutdown_requested,
                   years_to_check, year_pos, cancel, aside>>

\* the test after driver setup, and if self.driver
CheckAfterSetup ==
    /\ rpc = "after_setup"
    /\ rpc' = IF ~shutdown_requested THEN "login"
              ELSE IF driver # NULL THEN "quit_after_setup" ELSE "finally"
    /\ UNCHANGED <<card_state, database, shutdown_requested, driver, browser,
                   years_to_check, year_pos, cancel, aside>>

\* self.driver.quit() and return; on a driver that signal_handler has set to
\* None in between, the AttributeError is caught by except Exception
QuitAfterSetup ==
    /\ rpc = "quit_after_setup"
    /\ IF driver = NULL
       THEN /\ rpc' = "except"
            /\ UNCHANGED <<browser, cancel>>
       ELSE /\ rpc' = "finally"
            /\ browser' = "quit"
            /\ cancel' = [cancel EXCEPT !.quit_by = @ \cup {"after_setup"}]
    /\ UNCHANGED <<card_state, database, shutdown_requested, driver,
                   years_to_check, year_pos, aside>>

\* self.browser.login(): it raises on a browser that has been quit
Login ==
    /\ rpc = "login"
    /\ \E raises \in BOOLEAN :
          /\ browser # "live" => raises
          /\ rpc' = IF raises THEN "except" ELSE "get_years"
    /\ UNCHANGED <<card_state, database, shutdown_requested, driver, browser,
                   years_to_check, year_pos, cancel, aside>>

\* years_to_check = self.browser.get_years_to_check()
GetYears ==
    /\ rpc = "get_years"
    /\ \E days \in {10, 100} :
          years_to_check' = get_years_to_check(2026, days, NULL)
    /\ year_pos' = 0
    /\ rpc' = "year_test"
    /\ UNCHANGED <<card_state, database, shutdown_requested, driver, browser,
                   cancel, aside>>

break_before_year_never(flag) == FALSE

\* if shutdown_requested: break, at the top of the loop over the years
break_before_year(flag) == flag

\* for year in years_to_check, and the test before processing the year
YearTest ==
    /\ rpc = "year_test"
    /\ IF year_pos = Len(years_to_check)
       THEN rpc' = "finally" /\ UNCHANGED year_pos
       ELSE /\ year_pos' = year_pos + 1
            /\ rpc' = IF break_before_year(shutdown_requested)
                      THEN "finally" ELSE "navigate"
    /\ UNCHANGED <<card_state, database, shutdown_requested, driver, browser,
                   years_to_check, cancel, aside>>

\* navigate_to_order_history(year) is called: driver.get raises on a browser
\* that has been quit
NavigateBegin ==
    /\ rpc = "navigate"
    /\ rpc' = IF browser = "live" THEN "nav_wait" ELSE "except"
    /\ cancel' = IF shutdown_requested
                 THEN [cancel EXCEPT !.nav_after = @ \cup {year_pos}]
                 ELSE cancel
    /\ UNCHANGED <<card_state, database, shutdown_requested, driver, browser,
                   years_to_check, year_pos, aside>>

\* the page loads and the wait for its body ends, or one of them raises
NavigateEnd ==
    /\ rpc = "nav_wait"
    /\ \E raises \in BOOLEAN :
          /\ rpc' = IF raises THEN "except" ELSE "nav_test"
          /\ cancel' = IF ~raises /\ ~shutdown_requested
                       THEN [cancel EXCEPT !.navigated = @ \cup {year_pos}]
                       ELSE cancel
    /\ UNCHANGED <<card_state, database, shutdown_requested, driver, browser,
                   years_to_check, year_pos, aside>>

\* the test after navigation
NavTest ==
    /\ rpc = "nav_test"
    /\ rpc' = IF shutdown_requested THEN "finally" ELSE "call_process"
    /\ UNCHANGED <<card_state, database, shutdown_requested, driver, browser,
                   years_to_check, year_pos, cancel, aside>>

\* self.process_order_cards() is called
CallProcess ==
    /\ rpc = "call_process"
    /\ rpc' = "processing"
    /\ tally' = [NoTally EXCEPT
          !.completed_at_start = get_downloaded_invoices_count(invoices)]
    /\ run' = run + 1
    /\ idx' = 0
    /\ pc' = "find_cards"
    /\ cancel' = IF shutdown_requested
                 THEN [cancel EXCEPT !.proc_after = @ \cup {year_pos}]
                 ELSE cancel
    /\ page' = [page EXCEPT !.popovers = <<>>]
    /\ UNCHANGED <<cfg, store, ledger, locals, visit, last, database,
                   shutdown_requested, driver, browser, years_to_check,
                   year_pos, aside>>

\* process_order_cards has returned: the test after processing, then the
\* next year
AfterProcess ==
    /\ rpc = "processing"
    /\ pc = "idle"
    /\ rpc' = IF shutdown_requested THEN "finally" ELSE "year_test"
    /\ UNCHANGED <<card_state, database, shutdown_requested, driver, browser,
                   years_to_check, year_pos, cancel, aside>>

\* except Exception: log the error and the traceback
Except ==
    /\ rpc = "except"
    /\ rpc' = "finally"
    /\ UNCHANGED <<card_state, database, shutdown_requested, driver, browser,
                   years_to_check, year_pos, cancel, aside>>

finally_guard_never(d) == FALSE

\* finally: if self.driver
finally_guard(d) == d # NULL

\* finally: the test of self.driver; run() returns when it is not set
Finally ==
    /\ rpc = "finally"
    /\ rpc' = IF finally_guard(driver) THEN "finally_quit" ELSE "returned"
    /\ UNCHANGED <<card_state, database, shutdown_requested, driver, browser,
                   years_to_check, year_pos, cancel, aside>>

\* finally: self.driver.quit(), then run() returns; on a driver that
\* signal_handler has set to None in between, the AttributeError leaves run()
FinallyQuit ==
    /\ rpc = "finally_quit"
    /\ IF driver = NULL
       THEN /\ rpc' = "raised"
            /\ UNCHANGED <<browser, cancel>>
       ELSE /\ rpc' = "returned"
            /\ browser' = "quit"
            /\ cancel' = [cancel EXCEPT !.quit_by = @ \cup {"finally"}]
    /\ UNCHANGED <<card_state, database, shutdown_requested, driver,
                   years_to_check, year_pos, aside>>

NextRun ==
    \/ Signal
    \/ RunEnter
    \/ SetupDriver
    \/ CheckAfterSetup
    \/ QuitAfterSetup
    \/ Login
    \/ GetYears
    \/ YearTest
    \/ NavigateBegin
    \/ NavigateEnd
    \/ NavTest
    \/ CallProcess
    \/ AfterProcess
    \/ Except
    \/ Finally
    \/ FinallyQuit
    \/ FindOrderCards
    \/ PageExcept
    \/ BeginCard
    \/ EndLoop
    \/ ExtractInvoiceLinks
    \/ Reconcile
    \/ DownloadInvoice
    \/ UploadToPaperless
    \/ MarkInvoice
    \/ MarkOrderProcessed
    \/ CardExcept

SpecRun == InitRun /\ [][NextRun]_vars

\* ------------------------------------------------ main(): scheduled mode
\* time.sleep(min(10, ...)): the wait sleeps in chunks of ten seconds
SleepChunk == 10

\* parse_schedule_interval(args.schedule): whole hours or days, hence whole
\* chunks; scaled down to a few chunks
ScheduleSeconds == {SleepChunk * n : n \in 1..MaxChunks}

\* how a call of run() ends, as main sees it: it returns after finishing,
\* it returns after its own except clause handled an exception, or an
\* exception leaves it (raised in its finally clause).  SIGINT is handled by
\* signal_handler, so KeyboardInterrupt is not among them
RunOutcomes == {"completed", "handled", "raised"}

Min(a, b) == IF a < b THEN a ELSE b

\* main() has parsed its arguments, built the downloader and entered the
\* scheduled branch
InitMain ==
    /\ Parked
    /\ invoices_pk = "invoice_uuid"
    /\ db = "open"
    /\ calls = 0
    /\ preexisting = {}
    /\ shutdown_requested = FALSE
    /\ driver = NULL
    /\ browser = "none"
    /\ rpc = "none"
    /\ page = QuietPage
    /\ years_to_check = <<>>
    /\ year_pos = 0
    /\ cancel = NoRequest
    /\ fn = NULL
    /\ \E seconds \in ScheduleSeconds :
          main = [pc |-> "loop_test", run_count |-> 0, elapsed |-> 0,
                  schedule_seconds |-> seconds, outcomes |-> <<>>]

main_frame == <<card_state, database, rpc, years_to_check, year_pos, cancel, fn>>

\* while not shutdown_requested: run_count += 1
MainLoopTest ==
    /\ main.pc = "loop_test"
    /\ IF shutdown_requested
       THEN main' = [main EXCEPT !.pc = "stopped"]
       ELSE /\ main.run_count < MaxRuns
            /\ main' = [main EXCEPT !.pc = "run", !.run_count = @ + 1]
    /\ UNCHANGED <<main_frame, shutdown_requested, driver, browser>>

\* an exception that leaves run() ends the scheduled loop
schedule_handler_propagates == "stopped"

\* except Exception around downloader.run(): log, and go on
schedule_handler == "after_run"

\* run() goes on to set up the driver whatever the flag says
run_returns_at_once_never(flag) == FALSE

\* run(): if shutdown_requested: return, before the driver is set up
run_returns_at_once(flag) == flag

\* downloader.run(), from its call to its end; a browser it started has
\* been quit.  A run that returns at once starts no browser; its finally
\* clause can still raise on the driver of an earlier run
MainRun ==
    /\ main.pc = "run"
    /\ \E outcome \in RunOutcomes \cup {"skipped"}, started \in BOOLEAN :
          /\ IF run_returns_at_once(shutdown_requested)
             THEN /\ ~started
                  /\ outcome \in {"skipped"} \cup
                        (IF driver # NULL THEN {"raised"} ELSE {})
             ELSE outcome \in RunOutcomes
          /\ main' = [main EXCEPT
                !.pc = IF outcome = "raised" THEN schedule_handler
                       ELSE "after_run",
                !.outcomes = Append(@, outcome)]
          /\ driver' = IF started THEN WebDriver ELSE driver
          /\ browser' = IF started THEN "quit" ELSE browser
    /\ UNCHANGED <<main_frame, shutdown_requested>>

\* the two tests of shutdown_requested after the run
MainAfterRun ==
    /\ main.pc = "after_run"
    /\ main' = IF shutdown_requested
               THEN [main EXCEPT !.pc = "stopped"]
               ELSE [main EXCEPT !.pc = "wait_test", !.elapsed = 0]
    /\ UNCHANGED <<main_frame, shutdown_requested, driver, browser>>

\* while elapsed < schedule_seconds and not shutdown_requested
MainWaitTest ==
    /\ main.pc = "wait_test"
    /\ main' = IF main.elapsed < main.schedule_seconds /\ ~shutdown_requested
               THEN [main EXCEPT !.pc = "sleep"]
               ELSE [main EXCEPT !.pc = "loop_test"]
    /\ UNCHANGED <<main_frame, shutdown_requested, driver, browser>>

\* sleep_time = min(10, schedule_seconds - elapsed); time.sleep(sleep_time)
MainSleep ==
    /\ main.pc = "sleep"
    /\ main' = [main EXCEPT
          !.pc = "wait_check",
          !.elapsed = @ + Min(SleepChunk, main.schedule_seconds - main.elapsed)]
    /\ UNCHANGED <<main_frame, shutdown_requested, driver, browser>>

\* if shutdown_requested: break, inside the wait
MainWaitCheck ==
    /\ main.pc = "wait_check"
    /\ main' = IF shutdown_requested
               THEN [main EXCEPT !.pc = "loop_test"]
               ELSE [main EXCEPT !.pc = "wait_test"]
    /\ UNCHANGED <<main_frame, shutdown_requested, driver, browser>>

MainStep ==
    \/ MainLoopTest
    \/ MainRun
    \/ MainAfterRun
    \/ MainWaitTest
    \/ MainSleep
    \/ MainWaitCheck

NextMain ==
    \/ Signal
    \/ MainLoopTest
    \/ MainRun
    \/ MainAfterRun
    \/ MainWaitTest
    \/ MainSleep
    \/ MainWaitCheck

SpecMain == InitMain /\ [][NextMain]_vars

\* main() is one thread of control: it takes its next step
SpecMainLive == SpecMain /\ WF_vars(MainStep)

\* ------------------------------------------------------------ properties
\* the ledger holds a completion marker for the invoice: a row with a
\* filename (the invoices table has no other column that could mark it)
Complete(invs, uuid) ==
    \E r \in invs : r.invoice_uuid = uuid /\ r.filename # NULL

\* the processing of card idx has just ended; visit describes it
AtBoundary == pc = "loop" /\ idx >= 1

\* the card loop has processed its last card; tally describes the run
AtEndOfLoop == pc = "loop" /\ idx = NumCards

\* date or order identifier not obtained from the rendered card
Incomplete(card) == card.date = NULL \/ card.order_id = NULL

Attempts == {visit.done[j] : j \in 1..Len(visit.done)}

\* C1: an invoice whose completion is recorded in the ledger is not fetched
\* or forwarded again: while an invoice is being fetched and forwarded
\* (download done, verdict not yet drawn) the ledger holds no completion
\* marker for it.
C1_CompletedNeverRefetched ==
    pc \in {"upload", "mark"} =>
        ~Complete(invoices, extract_uuid_from_url(invoice_links_list[k].href))

\* C2: idempotence.  When the first run met the completion requirement of
\* every invoice it listed and the second run has seen the same cards with the
\* same descriptor lists, the second run has fetched nothing, forwarded
\* nothing, and left the number of completed invoices as it was.
C2_SecondRunIdle ==
    (AtEndOfLoop /\ run = 2 /\ tally.same /\ tally.prev_met) =>
        /\ tally.fetches = 0
        /\ tally.forwards = 0
        /\ get_downloaded_invoices_count(invoices) = tally.completed_at_start

\* C3: an invoice with a failed sink stays without completion in the ledger,
\* and the next visit of its order that lists it fetches it again, whatever
\* invoice_count the earlier visit wrote.
C3_FailedIsRetried ==
    (AtBoundary /\ visit.listed >= 0) =>
        /\ \A a \in Attempts :
              a.verdict = "incomplete" => ~Complete(invoices, Uuid(idx, a.idx))
        /\ \A j \in visit.pending :
              j <= visit.listed => \E a \in Attempts : a.idx = j

\* C4: incrementality.  With stored count s and n descriptors, the visit
\* fetches the descriptors at the 1-based positions s+1..n, in that order,
\* and no other.
C4_FetchesExactlyTheNew ==
    (AtBoundary /\ visit.stored >= 0) =>
        FetchedPositions(visit) =
            [j \in 1..(IF visit.listed > visit.stored
                       THEN visit.listed - visit.stored ELSE 0)
                |-> visit.stored + j]

\* C5: completion gating.  With both sinks configured, an invoice that was
\* fetched and written but whose forward failed gets the verdict incomplete,
\* mark_invoice_downloaded is not called for it, and the ledger holds no
\* completion marker for it, neither then nor for any invoice left incomplete
\* by the last visit of its order.
C5_ForwardFailureLeavesNoMarker ==
    (cfg.output_folder /\ cfg.paperless) =>
        /\ \A a \in Attempts :
              (a.written /\ a.forward_attempted /\ ~a.forwarded
                  /\ a.verdict # "pending") =>
                 /\ a.verdict = "incomplete"
                 /\ ~a.called
                 /\ ~Complete(invoices, Uuid(idx, a.idx))
        /\ \A c \in Cards : \A j \in last[c].failed :
              ~Complete(invoices, Uuid(c, j))

\* C5 witness: both sinks, the run's last card is done, one of its invoices
\* was written but not forwarded, and mark_order_processed has written its
\* bare row.
C5_Witness ==
    /\ cfg.output_folder /\ cfg.paperless
    /\ AtEndOfLoop
    /\ \E a \in Attempts :
          /\ a.written /\ a.forward_attempted /\ ~a.forwarded
          /\ a.verdict = "incomplete"
          /\ \E r \in invoices :
                r.invoice_uuid = Uuid(idx, a.idx) /\ r.filename = NULL

\* C6: the verdict of an invoice is the conjunction of the outcomes of the
\* configured sinks (file written, document accepted by the endpoint), and
\* mark_invoice_downloaded is called only on a true verdict.
C6_VerdictIsConjunctionOfSinks ==
    \A a \in Attempts :
        a.verdict # "pending" =>
            /\ (a.verdict = "complete") <=>
                  ((cfg.output_folder => a.written) /\ (cfg.paperless => a.forwarded))
            /\ a.called => a.verdict = "complete"

\* C6 witness: with both sinks configured an invoice is written and
\* forwarded, its verdict is true and the call is made, after an earlier
\* invoice of the same card got a false verdict.
C6_Witness ==
    /\ cfg.output_folder /\ cfg.paperless
    /\ \E a \in Attempts, b \in Attempts :
          /\ a.verdict = "complete" /\ a.written /\ a.forwarded /\ a.called
          /\ b.verdict = "incomplete" /\ ~b.called

\* C7: for every invoice with a true verdict the recording call succeeds and
\* the ledger then holds a completion marker for it.
C7_TrueVerdictIsRecorded ==
    \A a \in Attempts :
        a.verdict = "complete" =>
            a.recorded /\ Complete(invoices, Uuid(idx, a.idx))

\* C8: a visit of a complete card that obtained its descriptor list applies
\* mark_order_processed exactly once, with the length of that list.
C8_OrderMarkedOncePerCard ==
    (AtBoundary /\ visit.listed >= 0) => visit.mop = <<visit.listed>>

\* C9: while the card being processed is one that extract_order_info cannot
\* complete, no step clicks, fetches, forwards or writes the ledger.
C9_IncompleteCardHasNoEffect ==
    [][(visit'.card # NULL /\ Incomplete(visit'.card)) =>
          /\ orders' = orders
          /\ invoices' = invoices
          /\ ~visit'.clicked
          /\ visit'.done = <<>>
          /\ visit'.mop = <<>>
          /\ pc' = "loop"]_vars

\* C9 witness: an incomplete card has been skipped while the ledger already
\* holds its order and an invoice row from an earlier run.
C9_Witness ==
    /\ AtBoundary
    /\ visit.card # NULL /\ Incomplete(visit.card)
    /\ orders[OrderId(idx)] # NULL
    /\ \E r \in invoices : r.order_id = OrderId(idx)

\* C10: an exception raised while a card is processed lands in the handler of
\* that card, which sends the dismiss interaction before the loop goes on,
\* and the loop is left only before its first or after its last card.
C10_CardExceptionIsContained ==
    /\ visit.raised => pc \in {"card_except", "loop"}
    /\ (visit.raised /\ pc = "loop") => visit.dismissed
    /\ pc = "page_except" => (idx = 0 /\ tally.raised = {})
    /\ pc = "idle" => idx \in {0, NumCards}

\* C10 witness: the first card raised, and the last card of the same run has
\* been processed to its end, ledger write included.
C10_Witness ==
    /\ AtEndOfLoop
    /\ 1 \in tally.raised
    /\ idx > 1
    /\ visit.listed >= 0
    /\ visit.mop # <<>>

\* C11: after a failure while one new invoice of a card is handled (fetch,
\* forward, or the recording of its completion), the new invoices that follow
\* it in the list are still attempted during the same visit.
C11_LaterInvoicesStillAttempted ==
    (AtBoundary /\ visit.listed >= 0) =>
        \A a \in Attempts : \A j \in (a.idx + 1)..visit.listed :
            \E b \in Attempts : b.idx = j

\* C18: the invoice_count a visit records for an order is at least the
\* count it read for that order when it started, also when the overlay was
\* not found.
C18_CountNeverDecreases ==
    (AtBoundary /\ visit.stored >= 0 /\ visit.mop # <<>>) =>
        visit.stored <= visit.mop[Len(visit.mop)]

Returned(op) == fn # NULL /\ fn.op = op /\ fn.done

\* C15: get_years_to_check returns, in ascending order, the years in scope
\* that are not below min_year: the previous and the current year while fewer
\* than 56 whole days have elapsed since January 1, the current year alone
\* afterwards; without min_year nothing is removed.
C15_YearsInScope ==
    Returned("get_years_to_check") =>
        LET current_year == fn.args[1]
            days == fn.args[2]
            min_year == fn.args[3]
            scope == IF days < 56 THEN {current_year - 1, current_year}
                     ELSE {current_year}
            kept == {y \in scope : min_year = NULL \/ y >= min_year[1]}
        IN /\ Len(fn.result) = Cardinality(kept)
           /\ \A j \in 1..Len(fn.result) : fn.result[j] \in kept
           /\ \A i, j \in 1..Len(fn.result) : i < j => fn.result[i] < fn.result[j]

\* C15 witness: on day 55 with min_year equal to the current year the
\* previous year is in scope and is removed.
C15_Witness ==
    /\ Returned("get_years_to_check")
    /\ fn.args[2] = 55
    /\ fn.args[3] = <<fn.args[1]>>
    /\ fn.result = <<fn.args[1]>>

\* the positions of the overlay's elements that are the first to show their
\* href
FirstSeen(links) ==
    {p \in 1..Len(links) :
        /\ ~links[p].stale /\ links[p].href # NULL
        /\ \A q \in 1..(p - 1) :
              links[q].stale \/ links[q].href # links[p].href}

\* C16: the list extract_invoice_links returns has no two descriptors with
\* the same href, and lists the hrefs in the order in which the overlay first
\* shows them.
C16_UniqueInFirstSeenOrder ==
    Returned("extract_invoice_links") =>
        LET links == fn.args[1]
            list == fn.result
        IN /\ \A i, j \in 1..Len(list) : i # j => list[i].href # list[j].href
           /\ Len(list) = Cardinality(FirstSeen(links))
           /\ \A i \in 1..Len(list) :
                 \E p \in FirstSeen(links) :
                    /\ links[p].href = list[i].href
                    /\ Cardinality({q \in FirstSeen(links) : q < p}) = i - 1

\* C16 witness: an overlay that shows one href, then another, then the first
\* again.
C16_Witness ==
    /\ Returned("extract_invoice_links")
    /\ Len(fn.args[1]) = 3
    /\ fn.args[1][1].href = fn.args[1][3].href
    /\ ~fn.args[1][1].stale /\ ~fn.args[1][3].stale
    /\ Len(fn.result) = 2
    /\ fn.result[2].href = fn.args[1][2].href

HasUuidSegment(url) == url # NULL /\ url[2][1] \in {"uuid", "UUID"}

\* C20: two URLs whose UUID segments have the same digits, in whatever letter
\* case, and whatever their query strings, give the same value, written in
\* lower case.
C20_SameUuidWhateverCaseAndQuery ==
    Returned("extract_uuid_from_url") =>
        LET u == fn.args[1]
            w == fn.args[2]
        IN (HasUuidSegment(u) /\ HasUuidSegment(w)
               /\ u[2][2] = w[2][2] /\ u[2][3] = w[2][3]) =>
              /\ fn.result[1] = fn.result[2]
              /\ fn.result[1] = Uuid(u[2][2], u[2][3])

\* C20 witness: the same UUID once in upper case with one query string and
\* once in lower case with another.
C20_Witness ==
    /\ Returned("extract_uuid_from_url")
    /\ fn.args[1] = UrlWithQuery(UpperUuid(1, 1), "a=1")
    /\ fn.args[2] = UrlWithQuery(Uuid(1, 1), "a=2")
    /\ fn.result[1] = fn.result[2]

\* the identity of a record: its UUID, or the hash of its URL when the URL
\* holds none
Identity(r) ==
    IF r.invoice_uuid # NULL THEN r.invoice_uuid ELSE r.invoice_hash

\* C17: whatever calls of mark_order_processed and mark_invoice_downloaded
\* have been made on an open ledger, no two records have the same identity.
C17_OneRecordPerIdentity ==
    (db = "open" /\ calls > 0) =>
        \A r, t \in invoices : Identity(r) = Identity(t) => r = t

\* C19: opening a legacy ledger succeeds; it keeps every row it held, gives
\* every row whose URL holds a UUID that UUID, and after later writes holds at
\* most one row per UUID.
C19_LegacyLedgerMigrates ==
    invoices_pk = "invoice_url" =>
        /\ db # "failed"
        /\ (db = "open" /\ calls = 0) =>
              \A old \in preexisting : \E r \in invoices :
                 /\ r.invoice_url = old.invoice_url
                 /\ r.filename = old.filename
                 /\ r.order_id = old.order_id
        /\ db = "open" =>
              \A r \in invoices :
                 extract_uuid_from_url(r.invoice_url) # NULL =>
                    r.invoice_uuid = extract_uuid_from_url(r.invoice_url)
        /\ db = "open" =>
              \A r, t \in invoices :
                 (r.invoice_uuid # NULL /\ r.invoice_uuid = t.invoice_uuid) => r = t

\* C12: when run() has returned and setup_driver had returned a driver, the
\* browser has been quit.
C12_BrowserQuitBeforeReturn ==
    (rpc = "returned" /\ browser # "none") => browser = "quit"

\* run() returned without any shutdown request after processing a page, and
\* its finally clause quit the browser
C12_Witness ==
    /\ rpc = "returned"
    /\ ~shutdown_requested
    /\ run >= 1
    /\ driver # NULL
    /\ browser = "quit"

\* shutdown was first requested while process_order_cards was inside its
\* loop, on the card at position i
RequestedAtCard(i) ==
    /\ cancel.at # NULL
    /\ cancel.at.rpc = "processing"
    /\ cancel.at.pc \notin {"idle", "find_cards", "page_except"}
    /\ cancel.at.idx = i

\* C13: when shutdown was requested while card i was processed, no later card
\* of that page has its invoice list revealed, an invoice fetched, or the
\* ledger written (signal_handler quits the browser, so that the later cards
\* yield no order info).
C13_LaterCardsUntouched ==
    \A i \in Cards :
        (RequestedAtCard(i) /\ run = cancel.at.run /\ idx > i
            /\ visit.card # NULL) =>
            /\ ~visit.clicked
            /\ visit.done = <<>>
            /\ visit.mop = <<>>

\* the request came while the first card was past its reveal, and the loop
\* has reached the second card
C13_Witness ==
    /\ RequestedAtCard(1)
    /\ cancel.at.pc \in {"reconcile", "download", "upload", "mark", "mark_order"}
    /\ idx = 2
    /\ visit.card # NULL

\* C14: once shutdown is requested, navigate_to_order_history is called for
\* no year other than the one whose iteration had passed its test and was
\* about to navigate, and process_order_cards is called for no year whose
\* navigation had not completed before the request.
C14_NoFurtherYear ==
    shutdown_requested =>
        /\ \A p \in cancel.nav_after :
              cancel.at.rpc = "navigate" /\ p = cancel.at.year_pos
        /\ cancel.proc_after \subseteq cancel.navigated

\* the request came while the first of two years was processed, and run()
\* returned without turning to the second
C14_Witness ==
    /\ cancel.at # NULL
    /\ cancel.at.rpc = "processing"
    /\ cancel.at.year_pos = 1
    /\ Len(years_to_check) = 2
    /\ rpc = "returned"
    /\ year_pos = 1
    /\ cancel.nav_after = {}

\* C21: the file name generated for the invoice at position i of the list
\* ends in the index i when the list holds more than one descriptor, and has
\* no index when it holds one.
C21_IndexSuffixOnlyWhenSeveral ==
    \A j \in 1..Len(visit.done) :
        LET a == visit.done[j]
            stem == <<"AMZ", format_date_for_filename(order_info.date),
                      order_info.order_id>>
        IN /\ invoice_links_list[a.idx].href = Href(idx, a.idx)
           /\ Len(invoice_links_list) > 1 => a.filename = Append(stem, a.idx)
           /\ Len(invoice_links_list) = 1 => a.filename = stem

\* both invoices of a list of two were attempted in one visit
C21_Witness ==
    /\ Len(invoice_links_list) = 2
    /\ Len(visit.done) = 2
    /\ visit.done[1].filename[4] = 1
    /\ visit.done[2].filename[4] = 2

\* C27: the forward of an invoice is attempted only when its fetch returned
\* bytes; after a failed fetch, or a failed write to the configured folder,
\* no forward is attempted and the forward outcome is false.
C27_ForwardOnlyAfterFetch ==
    \A j \in 1..Len(visit.done) :
        LET a == visit.done[j]
            no_bytes == ~a.fetched \/ (cfg.output_folder /\ ~a.written)
        IN /\ a.forward_attempted => a.fetched
           /\ no_bytes => (~a.forward_attempted /\ ~a.forwarded)
           /\ (no_bytes /\ j = Len(visit.done) /\ pc \in {"upload", "mark"})
                 => ~paperless_success

\* both sinks configured, the bytes were fetched, the write failed, and the
\* forward step has been passed without a forward
C27_Witness ==
    /\ cfg.output_folder /\ cfg.paperless
    /\ pc = "mark"
    /\ visit.done # <<>>
    /\ LET a == visit.done[Len(visit.done)]
       IN a.fetched /\ ~a.written /\ ~a.forward_attempted

\* the last call made on the Database API was mark_order_processed
MarkedOrder == fn # NULL /\ fn.op = "mark_order_processed"

\* the identity a URL is recorded under
UrlIdentity(url) ==
    IF extract_uuid_from_url(url) # NULL
    THEN extract_uuid_from_url(url) ELSE get_hash_from_url(url)

\* C24: after mark_order_processed the ledger holds, for every URL of
\* invoice_urls, a record with that URL's identity (its UUID, or its hash
\* when it holds no UUID).
C24_EveryUrlHasARecord ==
    MarkedOrder =>
        \A j \in 1..Len(fn.args) :
            \E r \in invoices : Identity(r) = UrlIdentity(fn.args[j])

\* C25: a call of mark_order_processed leaves every invoices row that
\* existed as it was, and a second call with the same arguments changes
\* neither table.
C25_MarkOrderProcessedIsIdempotent ==
    [][(calls' = calls + 1 /\ fn'.op = "mark_order_processed") =>
          /\ \A r \in invoices : r \in invoices'
          /\ mark_order_processed_invoices(
                get_invoice_primary_key(invoices_pk), invoices',
                OrderId(1), fn'.args) = invoices'
          /\ mark_order_processed_orders(orders', OrderId(1), DateText(1),
                PriceText(1), Len(fn'.args)) = orders']_vars

\* mark_order_processed was called with a URL whose UUID already had a
\* record with a file name, stored under another URL
C25_Witness ==
    /\ MarkedOrder
    /\ \E r \in invoices :
          /\ r.filename # NULL
          /\ r.invoice_uuid # NULL
          /\ r.invoice_uuid = extract_uuid_from_url(fn.args[1])
          /\ r.invoice_url # fn.args[1]

\* the j-th scheduled run is the latest, and it failed
FailedRun(j) ==
    /\ main.run_count = j
    /\ Len(main.outcomes) = j
    /\ main.outcomes[j] \in {"handled", "raised"}

\* C22: in scheduled mode the loop stops only when shutdown was requested,
\* and a run that failed is followed by the next run unless shutdown is
\* requested.
C22_FailureNeverEndsSchedule ==
    /\ [](main.pc = "stopped" => shutdown_requested)
    /\ \A j \in 1..(MaxRuns - 1) :
          FailedRun(j) ~> (shutdown_requested \/ main.run_count > j)

\* the first run ended with an exception leaving run(), no shutdown was
\* requested, and the second run has started
C22_Witness ==
    /\ ~shutdown_requested
    /\ main.run_count = 2
    /\ main.pc = "run"
    /\ main.outcomes = <<"raised">>
    /\ main.elapsed = main.schedule_seconds

\* C29: a popover returned by find_active_popover is an element of the page
\* that was displayed, not aria-hidden and held an invoice list when it was
\* looked at; the wait makes no more polls than its timeout allows; and an
\* exception while looking gives None.
C29_ReturnedPopoverQualified ==
    Returned("find_active_popover") =>
        LET after == fn.args[2]
            raises == fn.args[3]
            found == fn.result.popover
        IN /\ found # NULL =>
                 /\ \E j \in 1..Len(after) : after[j] = found
                 /\ ~found.stale
                 /\ found.displayed
                 /\ found.aria_hidden # <<"true">>
                 /\ found.invoice_list
           /\ fn.result.waited <= MaxPolls
           /\ raises => found = NULL

\* the first poll saw nothing, the second a popover; afterwards the page
\* held an aria-hidden popover followed by the one that was returned
C29_Witness ==
    /\ Returned("find_active_popover")
    /\ fn.result.waited = 2
    /\ Len(fn.args[2]) = 2
    /\ fn.args[2][1].displayed /\ fn.args[2][1].invoice_list
    /\ ~fn.args[2][1].stale
    /\ fn.args[2][1].aria_hidden = <<"true">>
    /\ fn.result.popover = fn.args[2][2]

\* C23: the descriptors extract_invoice_links returns for a card are read
\* from the popover that the card's own reveal control opened, never from a
\* popover an earlier card left open.
C23_LinksFromOwnPopover == visit.source # NULL => visit.source = <<idx>>

\* C26: a call of extract_invoice_links that found a popover ends with the
\* dismiss interaction, and no popover is open when the controller leaves
\* the card, the path without new invoices included.
C26_PopoverDismissedBeforeReturn ==
    (visit.events # <<>> /\ pc # "extract" /\ visit.source # NULL) =>
        /\ visit.events[Len(visit.events)] = "dismiss"
        /\ pc = "loop" => page.popovers = <<>>

\* the event e is among the events of the visit
Happened(e) == \E j \in 1..Len(visit.events) : visit.events[j] = e

\* C28: when the card has no reveal control, extract_invoice_links returns
\* an empty list without raising, without a click and without a wait; when
\* no qualifying popover shows up during the wait, it returns an empty list
\* without raising.
C28_EmptyListWithoutControlOrPopover ==
    /\ Happened("no_control") => ~Happened("click") /\ ~Happened("wait")
    /\ (Happened("no_control") \/ Happened("no_popover")) =>
          /\ ~visit.raised
          /\ visit.listed = 0
          /\ pc \notin {"extract", card_handler}
          /\ pc = "reconcile" => invoice_links_list = <<>>

\* a card whose control was clicked and whose popover never showed up
C28_Witness ==
    /\ pc = "reconcile"
    /\ Happened("click")
    /\ Happened("no_popover")
    /\ invoice_links_list = <<>>

\* C30: every call of extract_invoice_links begins with the ESCAPE
\* interaction, the click comes after it, and the call goes on to locate the
\* control (and clicks it when there is one) whether or not the ESCAPE
\* interaction raised.
C30_EscapeFirstAndFailureSwallowed ==
    visit.events # <<>> =>
        /\ visit.events[1] \in {"escape", "escape_failed"}
        /\ Len(visit.events) >= 3
        /\ visit.events[2] = "locate"
        /\ visit.events[3] \in {"locate_failed", "no_control", "click"}
        /\ \A j \in 1..Len(visit.events) : visit.events[j] = "click" => j = 3

\* the ESCAPE interaction raised and the control was clicked all the same
C30_Witness ==
    /\ visit.events # <<>>
    /\ visit.events[1] = "escape_failed"
    /\ Happened("click")
    /\ visit.clicked
\* C31: a complete card with no invoice descriptor, a price above zero and a
\* date more than 14 days back gets the anomaly warning, and its processing
\* ends without an error, the order being recorded in the ledger.
C31_SuspiciousOrderIsWarnedAbout ==
    (/\ pc = "loop"
     /\ visit.card # NULL
     /\ extract_order_info(visit.card) # NULL
     /\ visit.listed = 0
     /\ parse_price(visit.card.price) > 0
     /\ is_order_older_than_14_days(visit.card.date)) =>
        /\ visit.warned
        /\ ~visit.raised
        /\ orders[visit.card.order_id] # NULL
\* C32: no call removes an order or an invoice identity from the ledger, and
\* when the controller leaves a complete card the ledger holds the order
\* with the date, the price and the invoice count of that visit.
C32_LedgerKeepsAndUpdatesRecords ==
    /\ [][db = "open" =>
            /\ \A o \in OrderKeys : orders[o] # NULL => orders'[o] # NULL
            /\ \A r \in invoices :
                  \E t \in invoices' : Identity(t) = Identity(r)]_vars
    /\ []((/\ pc = "loop"
            /\ visit.card # NULL
            /\ extract_order_info(visit.card) # NULL) =>
            /\ orders[visit.card.order_id] # NULL
            /\ orders[visit.card.order_id].date = visit.card.date
            /\ orders[visit.card.order_id].price = visit.card.price
            /\ visit.listed >= 0 =>
                  orders[visit.card.order_id].invoice_count = visit.listed)
\* the string is written <N>h or <N>d: decimal digits, then one unit letter
\* in either case
WellFormedInterval(str) ==
    /\ Len(str) >= 2
    /\ \A j \in 1..(Len(str) - 1) : str[j] \in DOMAIN DigitValue
    /\ str[Len(str)] \in {"h", "H", "d", "D"}

\* C33: parse_schedule_interval returns N*3600 for <N>h and N*86400 for
\* <N>d, the unit letter in either case, 0 for the empty string, and raises
\* ValueError for every other string; with an interval of 0 main performs
\* one run and does not enter the scheduling loop.
C33_IntervalParsedOrRejected ==
    (fn # NULL /\ fn.op = "parse_schedule_interval" /\ fn.done) =>
        LET str == fn.args[1]
            N == int(SubSeq(str, 1, Len(str) - 1))
            parsed == fn.result.parsed
        IN /\ str = <<>> => (~parsed.raises /\ parsed.seconds = 0)
           /\ (WellFormedInterval(str) /\ str[Len(str)] \in {"h", "H"}) =>
                 (~parsed.raises /\ parsed.seconds = N * 3600)
           /\ (WellFormedInterval(str) /\ str[Len(str)] \in {"d", "D"}) =>
                 (~parsed.raises /\ parsed.seconds = N * 86400)
           /\ (str # <<>> /\ ~WellFormedInterval(str)) => parsed.raises
           /\ (~parsed.raises /\ parsed.seconds = 0) => fn.result.mode = "single"
\* C34: within one run quit() is invoked at most once on the driver that
\* setup_driver created: by signal_handler, by the test after driver setup,
\* or by the finally clause.
C34_QuitAtMostOnce == Cardinality(cancel.quit_by) <= 1

\* C35: wherever signal_handler is interleaved with run(), no exception
\* leaves run(); the finally clause does not call quit() on a driver that
\* the handler has set to None.
C35_NoExceptionLeavesRun == rpc # "raised"
\* C36: in scheduled mode, once shutdown_requested is set, a call of run()
\* starts no browser, no later call of run() is made, no later sleep is
\* begun, and the scheduling loop stops.
C36_ShutdownStopsSchedule ==
    /\ [][(main.pc = "run" /\ shutdown_requested /\ main'.pc # "run") =>
            /\ driver' = driver
            /\ browser' = browser
            /\ main'.outcomes[Len(main'.outcomes)] \in {"skipped", "raised"}]_vars
    /\ []((shutdown_requested /\ main.pc # "run") => [](main.pc # "run"))
    /\ []((shutdown_requested /\ main.pc # "sleep") => [](main.pc # "sleep"))
    /\ (shutdown_requested ~> main.pc = "stopped")

\* shutdown was requested during the wait, and the loop has stopped with a
\* part of the interval left
C36_Witness ==
    /\ shutdown_requested
    /\ main.pc = "stopped"
    /\ main.run_count = 1
    /\ main.elapsed > 0
    /\ main.elapsed < main.schedule_seconds
\* C37: every file written to the output folder while a card was processed
\* belongs to an invoice that the ledger records as complete when the card
\* is left (no later step of the run removes a file or writes a record for
\* that card); with both sinks, a failed forward leaves no file behind.
C37_WrittenFilesAreComplete ==
    AtBoundary =>
        \A j \in 1..Len(visit.done) :
            visit.done[j].written =>
                Complete(invoices, Uuid(idx, visit.done[j].idx))
\* C38: whenever the controller has left a card, normally or through the
\* except clause of the card, every invoices row names an order_id for which
\* the orders table holds a row.
C38_InvoiceRecordsHaveAnOrder ==
    AtBoundary =>
        \A r \in invoices :
            r.order_id \in OrderKeys /\ orders[r.order_id] # NULL

\* a card was left through its except clause while the ledger held invoice
\* rows, one of them written during this run
C38_Witness ==
    /\ AtBoundary
    /\ visit.raised
    /\ \E r \in invoices : r.order_id # OrderId(idx)
\* C39: two distinct invoices of the order never receive the same file name,
\* neither in one visit nor in two visits between which the list of the
\* order grew (the storefront only appends, and the date parses).
C39_DistinctInvoicesDistinctNames ==
    fn.op = "name_invoices" =>
        \A a, b \in 1..Len(fn.result) :
            (a = b \/ (a < b /\ fn.lists[a] < fn.lists[b])) =>
                \A x \in 1..Len(fn.result[a]), y \in 1..Len(fn.result[b]) :
                    fn.result[a][x].href # fn.result[b][y].href =>
                        fn.result[a][x].filename # fn.result[b][y].filename
====
